---- MODULE Spec2Model ----
(***************************************************************************)
(* A model of xclim.core.indicator: the class registry and the instance    *)
(* registry (IndicatorRegistrar), the construction of indicators           *)
(* (Indicator.__new__ / __init__ and the parameter machinery) and the call *)
(* pipeline (Indicator.__call__ with the CheckMissingIndicator and         *)
(* ResamplingIndicator overrides).                                         *)
(*                                                                         *)
(* Python values are records [t, v, items]: t is the type tag, v the       *)
(* scalar payload (a string), items the (key, value) pairs of a dict, a    *)
(* list (its elements are the keys) or a Dataset (its variables).          *)
(* Dotted module names are sequences of their parts, so that str.split(".")*)
(* and ".".join are the identity on the representation.                    *)
(***************************************************************************)
EXTENDS Integers, Sequences, FiniteSets, TLC

VARIABLES
    classes,              \* every class object: declared ones, then created ones
    registry,             \* registry: registry id -> class
    indicators_registry,  \* _indicators_registry: class -> list of weak references
    alive,                \* the instances not yet garbage-collected
    instances,            \* every instance ever allocated, in allocation order: its class
    lastOp,               \* the last operation on the registries and its outcome
    OPTIONS,              \* the global options (check_missing, missing_options)
    pc,                   \* position of the running call
    call,                 \* the running call: arguments, das, params, outcome
    log,                  \* history: the steps of the running call, in order
    from_dict_call,       \* the last call of Indicator.from_dict and what it resolved
    modules,              \* the submodules of xclim.indicators: name -> (name, instance) pairs
    build                 \* the running build_indicator_module_from_yaml

vars == <<classes, registry, indicators_registry, alive, instances, lastOp,
          OPTIONS, pc, call, log, from_dict_call, modules, build>>

regVars == <<classes, registry, indicators_registry, alive, instances, lastOp>>
callVars == <<OPTIONS, pc, call, log>>
modVars == <<from_dict_call, modules, build>>

-----------------------------------------------------------------------------
(* Bounds of the model *)

MaxCreated == 2
MaxInstances == 3

-----------------------------------------------------------------------------
(* Python values *)

Val(t, v, items) == [t |-> t, v |-> v, items |-> items]
Empty == Val("empty", "", {})        \* the _empty sentinel
NoneV == Val("none", "", {})
FalseV == Val("bool", "False", {})
Str(s) == Val("str", s, {})
Num(s) == Val("num", s, {})
DataArray(s) == Val("DataArray", s, {})
Dict(items) == Val("dict", "", items)
List(elements) == Val("list", "", {<<x, Val("none", "", {})>> : x \in elements})
Dataset(variables) == Val("Dataset", "", {<<x, Val("DataArray", x, {})>> : x \in variables})

\* bool(x) for the values of the model
Truthy(x) ==
    CASE x.t = "none" -> FALSE
      [] x.t = "empty" -> TRUE
      [] x.t = "bool" -> x.v = "True"
      [] x.t = "str" -> x.v # ""
      [] x.t = "num" -> x.v # "0"
      [] x.t \in {"dict", "list"} -> x.items # {}
      [] OTHER -> TRUE

\* a or b
PyOr(a, b) == IF Truthy(a) THEN a ELSE b

DictKeys(d) == {kv[1] : kv \in d.items}
DictGet(d, k) == (CHOOSE kv \in d.items : kv[1] = k)[2]
\* d1.update(d2) on sets of (key, value) pairs
ItemsUpdate(i1, i2) == {kv \in i1 : kv[1] \notin {x[1] : x \in i2}} \cup i2

-----------------------------------------------------------------------------
(* InputKind *)

InputKind_VARIABLE == 0
InputKind_OPTIONAL_VARIABLE == 1
InputKind_QUANTIFIED == 2
InputKind_FREQ_STR == 3
InputKind_KWARGS == 50
InputKind_DATASET == 70

-----------------------------------------------------------------------------
(* Parameter *)

Parameter(name, kind, compute_name, default) ==
    [name |-> name, kind |-> kind, compute_name |-> compute_name,
     default |-> default, value |-> Empty]

\* Parameter.injected
injected(p) == p.value # Empty

Keys(ps) == {ps[i].name : i \in 1..Len(ps)}
IndexOf(ps, key) == CHOOSE i \in 1..Len(ps) : ps[i].name = key
RemoveAt(s, i) == SubSeq(s, 1, i - 1) \o SubSeq(s, i + 1, Len(s))

\* Parameter.is_parameter_dict
is_parameter_dict(val) ==
    DictKeys(val) \subseteq {"kind", "default", "description", "units", "choices", "value", "name"}

\* Parameter.update, for the fields the model keeps (default, value)
ParameterUpdate(p, items) ==
    LET d == Dict(items)
        p1 == IF "default" \in DictKeys(d) THEN [p EXCEPT !.default = DictGet(d, "default")] ELSE p
    IN  IF "value" \in DictKeys(d) THEN [p1 EXCEPT !.value = DictGet(d, "value")] ELSE p1

-----------------------------------------------------------------------------
(* Dotted names *)

\* the pairs (p, s) of distinct name parts of the model where s starts with p
ProperStrPrefixes == {<<"xclim", "xclim_contrib">>}

\* str.startswith on one name part
StrStartsWith(s, p) == s = p \/ <<p, s>> \in ProperStrPrefixes

\* module.startswith(prefix), both dotted names
StartsWith(module, prefix) ==
    LET n == Len(prefix) IN
    /\ Len(module) >= n
    /\ \A i \in 1..(n - 1) : module[i] = prefix[i]
    /\ IF Len(module) = n THEN StrStartsWith(module[n], prefix[n]) ELSE module[n] = prefix[n]

\* str.upper on the identifiers and class names of the model
Upper(s) ==
    CASE s = "tg" -> "TG"
      [] s = "pr" -> "PR"
      [] s \in {"daily", "Daily"} -> "DAILY"
      [] s = "Indicator" -> "INDICATOR"
      [] s = "ReducingIndicator" -> "REDUCINGINDICATOR"
      [] s = "Temp" -> "TEMP"
      [] s = "MyInd" -> "MYIND"
      [] s = "Contrib" -> "CONTRIB"
      [] s = "Plain" -> "PLAIN"
      [] s = "Unchecked" -> "UNCHECKED"
      [] s = "nope" -> "NOPE"
      [] OTHER -> s

-----------------------------------------------------------------------------
(* The compute functions wrapped by the indicators of the model:           *)
(*   count(tas, pr=None, thresh=0, freq="YS", **kwargs)                    *)
(*   mean(tas, thresh=0)                                                   *)

ComputeSignature(compute) ==
    IF compute = "count"
    THEN << Parameter("tas", InputKind_VARIABLE, "tas", Empty),
            Parameter("pr", InputKind_OPTIONAL_VARIABLE, "pr", NoneV),
            Parameter("thresh", InputKind_QUANTIFIED, "thresh", Num("0")),
            Parameter("freq", InputKind_FREQ_STR, "freq", Str("YS")),
            Parameter("kwargs", InputKind_KWARGS, "kwargs", Empty) >>
    ELSE << Parameter("tas", InputKind_VARIABLE, "tas", Empty),
            Parameter("thresh", InputKind_QUANTIFIED, "thresh", Num("0")) >>

\* Indicator._parse_indice: one Parameter per argument of the compute function
parse_indice(compute) == ComputeSignature(compute)

\* Indicator._added_parameters, and IndexingIndicator's override
added_parameters(cls) ==
    << Parameter("ds", InputKind_DATASET, "", NoneV) >>
    \o (IF cls.indexing THEN << Parameter("indexer", InputKind_KWARGS, "", Empty) >> ELSE << >>)

Ok(ps) == [err |-> "", ps |-> ps]
Raise(exc) == [err |-> exc, ps |-> << >>]

\* Indicator.__new__, lines 471-488: the parameters before the passed ones are applied
initial_parameters(cls, kw) ==
    IF kw.compute # ""
    THEN LET parsed == parse_indice(kw.compute)
             added == added_parameters(cls)
         IN  IF \E i \in 1..Len(added) : added[i].name \in Keys(parsed)
             THEN Raise("ValueError")
             ELSE Ok(parsed \o added)
    ELSE Ok(cls.params)

\* Indicator._update_parameters; passed is the list of (key, val) items
RECURSIVE update_parameters(_, _)
update_parameters(parameters, passed) ==
    IF passed = << >> THEN Ok(parameters)
    ELSE
      LET key == Head(passed).key
          val == Head(passed).val
      IN
      IF val.t = "dict" /\ is_parameter_dict(val)
      THEN
        IF "name" \in DictKeys(val)
        THEN
          LET new_key == DictGet(val, "name").v
              rest == {kv \in val.items : kv[1] # "name"}
          IN
          IF new_key \in Keys(parameters) THEN Raise("ValueError")
          ELSE IF key \notin Keys(parameters) THEN Raise("ValueError")
          ELSE
            LET i == IndexOf(parameters, key)
                moved == Append(RemoveAt(parameters, i), [parameters[i] EXCEPT !.name = new_key])
            IN  update_parameters(
                    [moved EXCEPT ![Len(moved)] = ParameterUpdate(@, rest)], Tail(passed))
        ELSE IF key \notin Keys(parameters) THEN Raise("ValueError")
        ELSE update_parameters(
                 [parameters EXCEPT ![IndexOf(parameters, key)] = ParameterUpdate(@, val.items)],
                 Tail(passed))
      ELSE IF key \in Keys(parameters)
      THEN update_parameters(
               [parameters EXCEPT ![IndexOf(parameters, key)].value = val], Tail(passed))
      ELSE Raise("ValueError")

\* a sort key that leaves the injected parameters among the others
sortkey_KindOnly(p) ==
    IF p.kind \in {InputKind_VARIABLE, InputKind_OPTIONAL_VARIABLE, InputKind_KWARGS}
    THEN p.kind
    ELSE 2

\* the sort key of Indicator._ensure_correct_parameters
sortkey(p) ==
    IF ~injected(p)
    THEN IF p.kind \in {InputKind_VARIABLE, InputKind_OPTIONAL_VARIABLE, InputKind_KWARGS}
         THEN p.kind
         ELSE 2
    ELSE 99

SortKeys == {0, 1, 2, 50, 99}

\* sorted(items, key=sortkey): a stable sort
RECURSIVE StableSort(_, _)
StableSort(ps, keys) ==
    IF keys = {} THEN << >>
    ELSE LET k == CHOOSE x \in keys : \A y \in keys : x <= y
         IN  SelectSeq(ps, LAMBDA p : sortkey(p) = k) \o StableSort(ps, keys \ {k})

\* the defaults set by Indicator._ensure_correct_parameters
SetDefault(p) ==
    IF ~injected(p)
    THEN IF p.kind = InputKind_OPTIONAL_VARIABLE THEN [p EXCEPT !.default = NoneV]
         ELSE IF p.kind = InputKind_VARIABLE THEN [p EXCEPT !.default = Str(p.name)]
         ELSE p
    ELSE p

\* Indicator._ensure_correct_parameters, and ResamplingIndicator's override
ensure_correct_parameters(cls, parameters) ==
    IF cls.resampling /\ "freq" \notin Keys(parameters)
    THEN Raise("ValueError")
    ELSE Ok(StableSort([i \in 1..Len(parameters) |-> SetDefault(parameters[i])], SortKeys))

-----------------------------------------------------------------------------
(* Classes *)

\* a class object: its attributes, and which base classes are in its MRO
Class(name, module, isIndicator, checkMissing, resampling, indexing) ==
    [name |-> name, module |-> module, parent |-> 0,
     identifier |-> NoneV, realm |-> NoneV,
     missing |-> Str("from_context"), missing_options |-> NoneV, allowed_periods |-> NoneV,
     missing_freq |-> IF resampling THEN "freq" ELSE IF checkMissing THEN "None" ELSE "",
     params |-> << >>, registry_id |-> << >>,
     isIndicator |-> isIndicator, checkMissing |-> checkMissing,
     resampling |-> resampling, indexing |-> indexing]

\* the classes declared by class statements: Indicator, Daily and ReducingIndicator of
\* xclim.core.indicator, an official one of xclim.indicators.atmos, and four declared by
\* a user: two indicators, a bare IndicatorRegistrar subclass, and a
\* CheckMissingIndicator subclass whose _get_missing_freq returns False
DeclaredClasses ==
    << Class("Indicator", <<"xclim", "core", "indicator">>, TRUE, FALSE, FALSE, FALSE),
       Class("Daily", <<"xclim", "core", "indicator">>, TRUE, TRUE, TRUE, FALSE),
       Class("Temp", <<"xclim", "indicators", "atmos", "_temperature">>, TRUE, TRUE, TRUE, FALSE),
       Class("MyInd", <<"mymod">>, TRUE, FALSE, FALSE, FALSE),
       Class("Contrib", <<"xclim_contrib">>, TRUE, FALSE, FALSE, FALSE),
       Class("Plain", <<"mymod">>, FALSE, FALSE, FALSE, FALSE),
       Class("ReducingIndicator", <<"xclim", "core", "indicator">>, TRUE, TRUE, FALSE, FALSE),
       [Class("Unchecked", <<"mymod">>, TRUE, TRUE, FALSE, FALSE) EXCEPT !.missing_freq = "False"] >>

NDeclared == Len(DeclaredClasses)
ClassIds == 1..(NDeclared + MaxCreated)

\* the keyword arguments of a constructor call; Empty stands for "not passed"
Kw(identifier, module, realm, missing, missing_options, allowed_periods, compute, parameters) ==
    [identifier |-> identifier, module |-> module, realm |-> realm, missing |-> missing,
     missing_options |-> missing_options, allowed_periods |-> allowed_periods,
     compute |-> compute, parameters |-> parameters]

Given(kwval, inherited) == IF kwval # Empty THEN kwval ELSE inherited

Realms == {"atmos", "seaIce", "land", "ocean", "generic"}

\* Indicator.__new__, lines 520-531: the realm of the new class
infer_realm(cls, kw) ==
    IF StartsWith(cls.module, <<"xclim">>) /\ Len(cls.module) < 3
    THEN [exc |-> "IndexError", realm |-> NoneV]
    ELSE
      LET xclim_realm == IF StartsWith(cls.module, <<"xclim">>) THEN Str(cls.module[3]) ELSE NoneV
          realm == Given(kw.realm, PyOr(cls.realm, xclim_realm))
      IN  IF realm.t = "str" /\ realm.v \in Realms
          THEN [exc |-> "", realm |-> realm]
          ELSE [exc |-> "AttributeError", realm |-> realm]

\* Indicator.__new__ up to the creation of the class object (lines 465-542)
IndicatorNew(c, cls, kw) ==
    LET identifier == Given(kw.identifier, cls.identifier)
        p0 == initial_parameters(cls, kw)
        p1 == IF p0.err = "" THEN update_parameters(p0.ps, kw.parameters) ELSE p0
        p2 == IF p1.err = "" THEN ensure_correct_parameters(cls, p1.ps) ELSE p1
        r == infer_realm(cls, kw)
        Fail(exc, at) == [exc |-> exc, at |-> at, cls |-> cls]
    IN
    IF identifier = NoneV THEN Fail("AttributeError", "identifier")
    ELSE IF p2.err # "" THEN Fail(p2.err, "parameters")
    ELSE IF r.exc # "" THEN Fail(r.exc, "realm")
    ELSE [exc |-> "", at |-> "",
          cls |-> [cls EXCEPT
                     !.name = Upper(identifier.v),
                     !.parent = c,
                     !.identifier = identifier,
                     !.realm = r.realm,
                     !.missing = Given(kw.missing, @),
                     !.missing_options = Given(kw.missing_options, @),
                     !.allowed_periods = Given(kw.allowed_periods, @),
                     !.params = p2.ps,
                     !.module = IF kw.module # Empty /\ kw.module # NoneV
                                THEN <<"xclim", "indicators", kw.module.v>>
                                ELSE @]]

\* a registrar that prepends the module name whatever the module is
RegistryName_AlwaysPrefixed(cls) == cls.module \o <<Upper(cls.name)>>

\* IndicatorRegistrar.__new__: the registry id of a class
RegistryName(cls) ==
    LET name == Upper(cls.name) IN
    IF StartsWith(cls.module, <<"xclim", "indicators">>)
    THEN IF cls.module[3] \notin {"atmos", "generic", "land", "ocean", "seaIce"}
         THEN <<cls.module[3], name>>
         ELSE <<name>>
    ELSE cls.module \o <<name>>

\* an __init__ that registers the instance before it validates the options
IndicatorInit_RegisterFirst(cls) ==
    IF cls.checkMissing /\ cls.missing = Str("from_context") /\ cls.missing_options # NoneV
    THEN [exc |-> "ValueError", registered |-> TRUE]
    ELSE [exc |-> "", registered |-> TRUE]

\* CheckMissingIndicator.__init__ and Indicator.__init__ up to the registration
\* of the instance: the exception raised, and whether the instance was registered
IndicatorInit(cls) ==
    IF cls.checkMissing /\ cls.missing = Str("from_context") /\ cls.missing_options # NoneV
    THEN [exc |-> "ValueError", registered |-> FALSE]
    ELSE [exc |-> "", registered |-> TRUE]

\* Indicator.parameters
parameters(cls) == SelectSeq(cls.params, LAMBDA p : ~injected(p))

\* Indicator.injected_parameters: the (name, value) items
injected_parameters(cls) ==
    LET ps == SelectSeq(cls.params, LAMBDA p : injected(p))
    IN  [i \in 1..Len(ps) |-> <<ps[i].name, ps[i].value>>]

\* one inspect.Parameter of the generated signature
SigParameter(p) ==
    [name |-> p.name,
     kind |-> IF p.kind \in {InputKind_VARIABLE, InputKind_OPTIONAL_VARIABLE}
              THEN "POSITIONAL_OR_KEYWORD"
              ELSE IF p.kind = InputKind_KWARGS THEN "VAR_KEYWORD" ELSE "KEYWORD_ONLY",
     default |-> IF p.kind = InputKind_KWARGS THEN Empty ELSE p.default]

\* a signature that lists the injected parameters as well
gen_signature_All(cls) == [i \in 1..Len(cls.params) |-> SigParameter(cls.params[i])]

\* Indicator._gen_signature
gen_signature(cls) ==
    LET ps == parameters(cls)
        IsVar(p) == p.kind \in {InputKind_VARIABLE, InputKind_OPTIONAL_VARIABLE}
        variables == SelectSeq(ps, IsVar)
        others == SelectSeq(ps, LAMBDA p : ~IsVar(p))
    IN  [i \in 1..Len(variables) |-> SigParameter(variables[i])]
        \o [i \in 1..Len(others) |-> SigParameter(others[i])]

-----------------------------------------------------------------------------
(* The registries: state and operations *)

\* no keyword argument is passed
NoKw == [identifier |-> Empty, module |-> Empty, realm |-> Empty, missing |-> Empty,
         missing_options |-> Empty, allowed_periods |-> Empty, compute |-> "",
         parameters |-> << >>]

Op(op, cls, created, exc, at, warned, ret, kw) ==
    [op |-> op, cls |-> cls, created |-> created, exc |-> exc, at |-> at,
     warned |-> warned, ret |-> ret, kw |-> kw]

\* no call is running
NoCall ==
    [inst |-> 0, kwds |-> << >>, dataOK |-> TRUE, cfOK |-> TRUE, das |-> << >>,
     params |-> << >>, args |-> << >>, exc |-> "", at |-> "", masked |-> FALSE,
     method |-> "", freq |-> Empty, options |-> Empty, named |-> FALSE]

InitRegistries ==
    /\ classes = DeclaredClasses
    /\ registry = << >>
    /\ indicators_registry = [c \in ClassIds |-> << >>]
    /\ alive = {}
    /\ instances = << >>
    /\ lastOp = Op("", 0, 0, "", "", FALSE, 0, NoKw)

DefaultOptions ==
    [check_missing |-> "any", missing_options |-> [m \in {"any", "wmo", "skip"} |-> Dict({ })]]

InitCall ==
    /\ OPTIONS = DefaultOptions
    /\ pc = "idle"
    /\ call = NoCall
    /\ log = << >>

\* the `base` entry of the data of from_dict: absent, a dotted name, or a class
Base(t, parts, cls) == [t |-> t, parts |-> parts, cls |-> cls]
NoBase == Base("absent", << >>, 0)
BaseName(parts) == Base("str", parts, 0)
BaseClass(cls) == Base("class", << >>, cls)

\* no call of from_dict was made
NoFromDict ==
    [on |-> 0, base |-> NoBase, kw |-> NoKw, registry |-> << >>, cls |-> 0, exc |-> ""]

\* no build is running
NoBuild ==
    [status |-> "idle", mode |-> "", name |-> "", reload |-> FALSE, file |-> << >>,
     todo |-> << >>, mapping |-> << >>, failed |-> { }, before |-> << >>,
     ninstances |-> 0, exc |-> ""]

InitModules ==
    /\ from_dict_call = NoFromDict
    /\ modules = << >>
    /\ build = NoBuild

Init == InitRegistries /\ InitCall /\ InitModules

\* IndicatorRegistrar.__init__: a weak reference to the new instance is appended
RegistrarInit(refs, inst) == Append(refs, inst)

\* cls(**kw) for an Indicator class: Indicator.__new__, IndicatorRegistrar.__new__,
\* then CheckMissingIndicator.__init__ / Indicator.__init__ on the new instance:
\* what it does to the registries
Construct(c, kw) ==
    /\ c \in 1..Len(classes)
    /\ classes[c].isIndicator
    /\ Len(classes) < NDeclared + MaxCreated
    /\ LET r == IndicatorNew(c, classes[c], kw) IN
       IF r.exc # ""
       THEN /\ lastOp' = Op("new", c, 0, r.exc, r.at, FALSE, 0, kw)
            /\ UNCHANGED <<classes, registry, indicators_registry, alive, instances>>
       ELSE
         LET new == Len(classes) + 1
             name == RegistryName(r.cls)
             cls == [r.cls EXCEPT !.registry_id = name]
             init == IndicatorInit(cls)
             inst == Len(instances) + 1
         IN
         /\ classes' = Append(classes, cls)
         /\ registry' = (name :> new) @@ registry
         /\ IF init.registered
            THEN /\ indicators_registry' =
                        [indicators_registry EXCEPT ![new] = RegistrarInit(@, inst)]
                 /\ instances' = Append(instances, [cls |-> new, signature |-> gen_signature(cls)])
                 /\ alive' = alive \cup {inst}
            ELSE UNCHANGED <<indicators_registry, instances, alive>>
         /\ lastOp' = Op("new", c, new, init.exc, IF init.exc # "" THEN "init" ELSE "",
                         name \in DOMAIN registry, IF init.exc = "" THEN inst ELSE 0, kw)

\* cls(**kw) called by the user
Instantiate(c, kw) ==
    /\ Construct(c, kw)
    /\ UNCHANGED <<callVars, modVars>>

\* cls() for a class deriving from IndicatorRegistrar alone
PlainNew(c) ==
    /\ c \in 1..Len(classes)
    /\ ~classes[c].isIndicator
    /\ Len(instances) < MaxInstances
    /\ LET name == RegistryName(classes[c])
           inst == Len(instances) + 1
       IN
       /\ classes' = [classes EXCEPT ![c].registry_id = name]
       /\ registry' = (name :> c) @@ registry
       /\ indicators_registry' = [indicators_registry EXCEPT ![c] = RegistrarInit(@, inst)]
       /\ instances' = Append(instances, [cls |-> c, signature |-> << >>])
       /\ alive' = alive \cup {inst}
       /\ lastOp' = Op("plain", c, 0, "", "", name \in DOMAIN registry, inst, NoKw)
    /\ UNCHANGED <<callVars, modVars>>

\* the last strong reference to an instance goes away: its weak references die
Collect(i) ==
    /\ i \in alive
    /\ alive' = alive \ {i}
    /\ lastOp' = Op("gc", 0, 0, "", "", FALSE, i, NoKw)
    /\ UNCHANGED <<classes, registry, indicators_registry, instances>>
    /\ UNCHANGED <<callVars, modVars>>

\* a get_instance that returns the last live reference
get_instance_Last(refs, live) ==
    IF \E k \in 1..Len(refs) : refs[k] \in live
    THEN refs[CHOOSE k \in 1..Len(refs) :
                 refs[k] \in live /\ \A j \in (k + 1)..Len(refs) : refs[j] \notin live]
    ELSE 0

\* IndicatorRegistrar.get_instance: the first live reference, 0 for ValueError
get_instance(refs, live) ==
    IF \E k \in 1..Len(refs) : refs[k] \in live
    THEN refs[CHOOSE k \in 1..Len(refs) :
                 refs[k] \in live /\ \A j \in 1..(k - 1) : refs[j] \notin live]
    ELSE 0

GetInstance(c) ==
    /\ c \in 1..Len(classes)
    /\ LET inst == get_instance(indicators_registry[c], alive) IN
       lastOp' = Op("get_instance", c, 0, IF inst = 0 THEN "ValueError" ELSE "", "", FALSE, inst, NoKw)
    /\ UNCHANGED <<classes, registry, indicators_registry, alive, instances>>
    /\ UNCHANGED <<callVars, modVars>>

Tol == Dict({<<"nm", Num("5")>>})

K(identifier, module, realm, missing, missing_options, compute) ==
    Kw(identifier, module, realm, missing, missing_options, Empty, compute, << >>)

\* the constructor calls of the registry specification
RegKw ==
    { K(Str("tg"), Empty, Str("atmos"), Empty, Empty, "count"),
      K(Str("TG"), Str("custom"), Str("atmos"), Empty, Empty, "count"),
      K(Str("pr"), Str("land"), Str("land"), Empty, Empty, "count"),
      K(Str("tg"), Empty, Empty, Empty, Empty, "count"),
      K(Str("pr"), Empty, Str("bogus"), Empty, Empty, "count"),
      K(Str("pr"), Empty, NoneV, Empty, Empty, "count"),
      K(Str("tg"), Empty, Str("land"), Empty, Tol, "count"),
      K(Str("TG"), Empty, Str("atmos"), Str("wmo"), Tol, "count"),
      K(Empty, Empty, Str("atmos"), Empty, Empty, "count"),
      K(Str("tg"), Empty, Str("atmos"), Empty, Empty, "") }

\* the classes instantiated by the registry specification: Indicator, Temp, MyInd,
\* Contrib, and the classes created from them
RegParents == {1, 3, 4, 5} \cup ((NDeclared + 1)..(NDeclared + MaxCreated))

NextRegistry == \E c \in RegParents, kw \in RegKw : Instantiate(c, kw)

SpecRegistry == Init /\ [][NextRegistry]_vars

\* the constructor calls of the instances specification
InstKw == { K(Str("tg"), Empty, Str("atmos"), Empty, Empty, "count") }

\* the classes instantiated by the instances specification: MyInd and the classes
\* created from it
InstParents == {4} \cup ((NDeclared + 1)..(NDeclared + MaxCreated))

NextInstances ==
    \/ \E c \in InstParents, kw \in InstKw : Instantiate(c, kw)
    \/ \E c \in ClassIds : PlainNew(c)
    \/ \E i \in 1..(MaxInstances + MaxCreated) : Collect(i)
    \/ \E c \in ClassIds : GetInstance(c)

SpecInstances == Init /\ [][NextInstances]_vars

-----------------------------------------------------------------------------
(* Claims on the registries *)

Created == (NDeclared + 1)..Len(classes)

\* the registry id the documentation gives a class: NAME in the five realm modules of
\* xclim.indicators, <submodule>.NAME in its other submodules, <module>.NAME elsewhere
DocumentedId(cls) ==
    LET NAME == Upper(cls.identifier.v) IN
    IF Len(cls.module) >= 3 /\ cls.module[1] = "xclim" /\ cls.module[2] = "indicators"
    THEN IF cls.module[3] \in Realms THEN <<NAME>> ELSE <<cls.module[3], NAME>>
    ELSE cls.module \o <<NAME>>

LatestWithId(id) ==
    CHOOSE c \in Created :
        /\ DocumentedId(classes[c]) = id
        /\ \A d \in Created : DocumentedId(classes[d]) = id => d <= c

\* C1: after any sequence of instantiations the registry maps each registry id to the
\* subclass created by the most recent instantiation with that id; the subclass is
\* named identifier.upper(), carries the id as _registry_id, and an instantiation
\* warns exactly when it overwrites a registered id.
C1_RegistryHoldsLatest ==
    /\ DOMAIN registry = {DocumentedId(classes[c]) : c \in Created}
    /\ \A id \in DOMAIN registry : registry[id] = LatestWithId(id)
    /\ \A c \in Created :
         /\ classes[c].name = Upper(classes[c].identifier.v)
         /\ classes[c].registry_id = DocumentedId(classes[c])
    /\ (lastOp.op = "new" /\ lastOp.created # 0) =>
         /\ lastOp.created = Len(classes)
         /\ lastOp.warned <=>
              \E d \in Created : /\ d < lastOp.created
                                 /\ DocumentedId(classes[d]) = DocumentedId(classes[lastOp.created])

\* an id registered twice: the registry holds the later class, and the overwrite warned
C1_Witness ==
    /\ lastOp.op = "new" /\ lastOp.warned
    /\ \E c, d \in Created :
         /\ c < d
         /\ Len(classes[d].registry_id) = 2
         /\ DocumentedId(classes[c]) = DocumentedId(classes[d])
         /\ registry[DocumentedId(classes[c])] = d

\* the realm the documentation gives a new indicator: the passed one, else the
\* parent's, else the submodule of the parent for classes declared in the xclim package
DocumentedRealm(parent, passed) ==
    IF passed # Empty THEN passed
    ELSE IF parent.realm # NoneV THEN parent.realm
    ELSE IF parent.module[1] = "xclim" THEN Str(parent.module[3])
    ELSE NoneV

ValidRealm(r) == r.t = "str" /\ r.v \in Realms

\* C6: the realm of a new indicator is the passed realm, else the parent's, else (xclim
\* package only) the parent's submodule; construction raises AttributeError unless that
\* realm is one of the five, and succeeds with that realm otherwise.
C6_RealmPriority ==
    (lastOp.op = "new" /\ lastOp.at \notin {"identifier", "parameters"}) =>
        LET r == DocumentedRealm(classes[lastOp.cls], lastOp.kw.realm) IN
        IF ValidRealm(r)
        THEN lastOp.created # 0 /\ classes[lastOp.created].realm = r
        ELSE lastOp.created = 0 /\ lastOp.exc = "AttributeError"

BadMissingOptions(cls) ==
    cls.checkMissing /\ cls.missing = Str("from_context") /\ cls.missing_options # NoneV

\* C8: constructing a missing-checking indicator with missing 'from_context' and
\* missing_options not None raises ValueError, and no instance of the rejected class
\* is in the instance registry.
C8_RejectedNotRegistered ==
    /\ \A c \in Created : BadMissingOptions(classes[c]) =>
         /\ indicators_registry[c] = << >>
         /\ \A i \in 1..Len(instances) : instances[i].cls # c
    /\ (lastOp.op = "new" /\ lastOp.created # 0 /\ BadMissingOptions(classes[lastOp.created]))
         => lastOp.exc = "ValueError"

\* a rejected construction: its class is in the class registry, no instance is registered
C8_Witness ==
    /\ lastOp.op = "new" /\ lastOp.exc = "ValueError" /\ lastOp.at = "init"
    /\ BadMissingOptions(classes[lastOp.created])
    /\ registry[classes[lastOp.created].registry_id] = lastOp.created
    /\ indicators_registry[lastOp.created] = << >>
    /\ Len(instances) > 0

LiveOf(c) == {i \in alive : instances[i].cls = c}

\* C10: get_instance returns the earliest-registered instance of exactly that class
\* that is still alive, and raises ValueError when there is none.
C10_GetInstanceEarliestAlive ==
    lastOp.op = "get_instance" =>
        IF LiveOf(lastOp.cls) = { }
        THEN lastOp.exc = "ValueError" /\ lastOp.ret = 0
        ELSE /\ lastOp.exc = ""
             /\ lastOp.ret \in LiveOf(lastOp.cls)
             /\ \A i \in LiveOf(lastOp.cls) : lastOp.ret <= i

\* get_instance skipped a collected instance and returned the earlier of two live ones
C10_Witness ==
    /\ lastOp.op = "get_instance" /\ lastOp.ret # 0
    /\ \E i \in 1..Len(instances) :
         i < lastOp.ret /\ instances[i].cls = lastOp.cls /\ i \notin alive
    /\ \E j \in LiveOf(lastOp.cls) : j > lastOp.ret

-----------------------------------------------------------------------------
(* The call of an indicator *)

\* xclim.core.calendar.parse_offset on the frequencies of the model:
\* (multiplier, base, is start anchored, anchor)
parse_offset(freq) ==
    CASE freq = "YS" -> <<1, "Y", TRUE, "">>
      [] freq = "2YS" -> <<2, "Y", TRUE, "">>
      [] freq = "MS" -> <<1, "M", TRUE, "">>
      [] OTHER -> <<1, "D", FALSE, "">>

\* xclim.set_options: the global options the code reads
SetOptions(check_missing, wmo_options) ==
    /\ pc = "idle"
    /\ OPTIONS' = [check_missing |-> check_missing,
                   missing_options |-> [OPTIONS.missing_options EXCEPT !["wmo"] = wmo_options]]
    /\ OPTIONS' # OPTIONS
    /\ UNCHANGED <<pc, call, log>>
    /\ UNCHANGED <<regVars, modVars>>

\* a call that computes before it checks its inputs
call_order_ComputeFirst(cls) ==
    <<"parse", "compute", "datacheck", "cfcheck">>
    \o (IF cls.resampling THEN <<"periodcheck">> ELSE << >>)
    \o <<"format", "postprocess", "attrs", "done">>

\* the order of the steps of Indicator.__call__ (lines 881-935), with the
\* _preprocess_and_checks of the class (lines 1008-1013 and 1616-1629)
call_order(cls) ==
    <<"parse", "datacheck", "cfcheck">>
    \o (IF cls.resampling THEN <<"periodcheck">> ELSE << >>)
    \o <<"compute", "format", "postprocess", "attrs", "done">>

NextPc(cls, at) ==
    LET order == call_order(cls)
        i == CHOOSE k \in 1..Len(order) : order[k] = at
    IN  order[i + 1]

\* Signature.bind followed by BoundArguments.apply_defaults, for keyword arguments
bind(sig, kwds) ==
    LET named == {i \in 1..Len(sig) : sig[i].kind # "VAR_KEYWORD"}
        names == {sig[i].name : i \in named}
        vk == {sig[i].name : i \in (1..Len(sig)) \ named}
        extra == (DOMAIN kwds) \ names
        Default(n) == sig[CHOOSE i \in named : sig[i].name = n].default
    IN
    IF \/ extra # { } /\ vk = { }
       \/ \E n \in names : Default(n) = Empty /\ n \notin DOMAIN kwds
    THEN [exc |-> "TypeError", arguments |-> << >>]
    ELSE [exc |-> "",
          arguments |-> [n \in names \cup vk |->
                           IF n \in vk THEN Dict({<<k, kwds[k]>> : k \in extra})
                           ELSE IF n \in DOMAIN kwds THEN kwds[n]
                           ELSE Default(n)]]

\* Indicator._assign_named_args
assign_named_args(cls, arguments) ==
    LET ds == IF "ds" \in DOMAIN arguments THEN arguments["ds"] ELSE NoneV
        ps == parameters(cls)
        kind(n) == ps[IndexOf(ps, n)].kind
        IsVar(n) == kind(n) <= InputKind_OPTIONAL_VARIABLE
        Named(n) == arguments[n].t = "str" \/ arguments[n] = NoneV
        key(n) == PyOr(arguments[n], Str(n)).v
    IN
    IF \E n \in DOMAIN arguments : IsVar(n) /\ arguments[n].t = "str" /\ ds = NoneV
    THEN [exc |-> "ValueError", arguments |-> arguments]
    ELSE IF \E n \in DOMAIN arguments :
              /\ IsVar(n) /\ Named(n) /\ ds # NoneV
              /\ key(n) \notin DictKeys(ds) /\ kind(n) = InputKind_VARIABLE
    THEN [exc |-> "MissingVariableError", arguments |-> arguments]
    ELSE [exc |-> "",
          arguments |-> [n \in DOMAIN arguments |->
                           IF IsVar(n) /\ Named(n) /\ ds # NoneV /\ key(n) \in DictKeys(ds)
                           THEN DictGet(ds, key(n))
                           ELSE arguments[n]]]

\* Indicator._parse_variables_from_call, lines 964-979: das and params
parse_variables(cls, arguments) ==
    LET all == cls.params
        P(n) == all[IndexOf(all, n)]
        varnames == {n \in Keys(all) : /\ ~injected(P(n))
                                   /\ P(n).kind \in {InputKind_VARIABLE, InputKind_OPTIONAL_VARIABLE}}
        inj == {n \in Keys(all) : injected(P(n))}
    IN  [das |-> [n \in {x \in varnames : P(x).kind = InputKind_VARIABLE \/ arguments[x] # NoneV}
                    |-> arguments[n]],
         params |-> [n \in ((DOMAIN arguments) \ varnames) \cup inj |->
                       IF n \in inj THEN P(n).value ELSE arguments[n]]]

DictAsFunction(d) == [k \in DictKeys(d) |-> DictGet(d, k)]

\* Indicator._get_compute_args: the keyword arguments handed to compute
RECURSIVE get_compute_args(_, _, _, _)
get_compute_args(ps, das, params, args) ==
    IF ps = << >> THEN args
    ELSE
      LET p == Head(ps)
          out == IF p.compute_name = "" THEN args
                 ELSE IF p.name \in DOMAIN das THEN (p.compute_name :> das[p.name]) @@ args
                 ELSE IF p.name \in DOMAIN params
                 THEN IF p.kind = InputKind_KWARGS
                      THEN DictAsFunction(params[p.name]) @@ args
                      ELSE (p.compute_name :> params[p.name]) @@ args
                 ELSE args
      IN  get_compute_args(Tail(ps), das, params, out)

\* _get_missing_freq of ResamplingIndicator, ReducingIndicator and the user's class
get_missing_freq(cls, params) ==
    CASE cls.missing_freq = "freq" -> params["freq"]
      [] cls.missing_freq = "False" -> FalseV
      [] OTHER -> NoneV

\* CheckMissingIndicator._postprocess: whether the outputs are masked, with which
\* method and which options
postprocess(cls, params, options) ==
    LET freq == get_missing_freq(cls, params)
        method == IF cls.missing # Str("from_context") THEN cls.missing.v ELSE options.check_missing
        global == IF method \in DOMAIN options.missing_options
                  THEN options.missing_options[method] ELSE Dict({ })
    IN  IF cls.checkMissing /\ method # "skip" /\ freq # FalseV
        THEN [masked |-> TRUE, method |-> method, freq |-> freq,
              options |-> PyOr(cls.missing_options, global)]
        ELSE [masked |-> FALSE, method |-> method, freq |-> freq, options |-> Empty]

ClassOf(inst) == classes[instances[inst].cls]

\* inst(**kwds): the arguments are bound and parsed (_parse_variables_from_call)
Call(inst, kwds, dataOK, cfOK) ==
    /\ pc = "idle"
    /\ inst \in alive
    /\ LET cls == ClassOf(inst)
           ba == bind(instances[inst].signature, kwds)
           named == IF ba.exc = "" THEN assign_named_args(cls, ba.arguments) ELSE ba
           parsed == parse_variables(cls, named.arguments)
           start == [NoCall EXCEPT !.inst = inst, !.kwds = kwds, !.dataOK = dataOK, !.cfOK = cfOK]
       IN
       IF named.exc # ""
       THEN /\ call' = [start EXCEPT !.exc = named.exc, !.at = "parse"]
            /\ pc' = "done"
       ELSE /\ call' = [start EXCEPT !.das = parsed.das, !.params = parsed.params]
            /\ pc' = NextPc(cls, "parse")
    /\ log' = <<"parse">>
    /\ UNCHANGED OPTIONS
    /\ UNCHANGED <<regVars, modVars>>

\* a check of _preprocess_and_checks that raises when the inputs fail it
Check(step, passes, exc) ==
    /\ pc = step
    /\ log' = Append(log, step)
    /\ IF passes
       THEN pc' = NextPc(ClassOf(call.inst), step) /\ UNCHANGED call
       ELSE pc' = "done" /\ call' = [call EXCEPT !.exc = exc, !.at = step]
    /\ UNCHANGED OPTIONS
    /\ UNCHANGED <<regVars, modVars>>

\* a period check that accepts every frequency
period_allowed_Any(cls, params) == TRUE

\* whether ResamplingIndicator._preprocess_and_checks accepts the frequency
period_allowed(cls, params) ==
    \/ cls.allowed_periods = NoneV
    \/ parse_offset(params["freq"].v)[2] \in DictKeys(cls.allowed_periods)

DataCheck == Check("datacheck", call.dataOK, "ValidationError")

CfCheck == Check("cfcheck", call.cfOK, "ValidationError")

PeriodCheck == Check("periodcheck", period_allowed(ClassOf(call.inst), call.params), "ValueError")

\* self.compute(**args)
Compute ==
    /\ pc = "compute"
    /\ log' = Append(log, "compute")
    /\ call' = [call EXCEPT !.args =
                  get_compute_args(ClassOf(call.inst).params, call.das, call.params, << >>)]
    /\ pc' = NextPc(ClassOf(call.inst), "compute")
    /\ UNCHANGED OPTIONS
    /\ UNCHANGED <<regVars, modVars>>

\* the attributes are formatted from the templates and the units converted
Format ==
    /\ pc = "format"
    /\ log' = Append(log, "format")
    /\ pc' = NextPc(ClassOf(call.inst), "format")
    /\ UNCHANGED <<call, OPTIONS>>
    /\ UNCHANGED <<regVars, modVars>>

\* self._postprocess(outs, das, params)
Postprocess ==
    /\ pc = "postprocess"
    /\ LET r == postprocess(ClassOf(call.inst), call.params, OPTIONS) IN
       /\ call' = [call EXCEPT !.masked = r.masked, !.method = r.method,
                               !.freq = r.freq, !.options = r.options]
       /\ log' = Append(log, IF r.masked THEN "mask" ELSE "postprocess")
    /\ pc' = NextPc(ClassOf(call.inst), "postprocess")
    /\ UNCHANGED OPTIONS
    /\ UNCHANGED <<regVars, modVars>>

\* the attributes and the name are set on the outputs, which are returned
Attrs ==
    /\ pc = "attrs"
    /\ log' = Append(log, "attrs")
    /\ call' = [call EXCEPT !.named = TRUE]
    /\ pc' = NextPc(ClassOf(call.inst), "attrs")
    /\ UNCHANGED OPTIONS
    /\ UNCHANGED <<regVars, modVars>>

\* the call has returned or raised: its frame is gone
Return ==
    /\ pc = "done"
    /\ pc' = "idle"
    /\ call' = NoCall
    /\ log' = << >>
    /\ UNCHANGED OPTIONS
    /\ UNCHANGED <<regVars, modVars>>

-----------------------------------------------------------------------------
(* The call specification: one indicator is constructed, then called *)

E == Empty
Passed(key, val) == [key |-> key, val |-> val]

CK(missing, missing_options, allowed_periods, compute, passed) ==
    Kw(Str("tg"), Empty, Str("atmos"), missing, missing_options, allowed_periods, compute, passed)

InjectThresh == <<Passed("thresh", Num("5"))>>

\* the constructor calls of the call specification: (class, keyword arguments)
CallNew ==
    { <<1, CK(E, E, E, "count", << >>)>>,
      <<1, CK(E, E, E, "count", InjectThresh)>>,
      <<1, CK(E, E, E, "count",
              InjectThresh \o <<Passed("kwargs", Dict({<<"thresh", Num("9")>>}))>>)>>,
      <<1, CK(E, E, E, "count", <<Passed("kwargs", Dict({<<"window", Num("2")>>}))>>)>>,
      <<1, CK(E, E, E, "count", <<Passed("thresh", Dict({<<"name", Str("thr")>>}))>>)>>,
      <<1, CK(E, E, E, "count",
              <<Passed("thresh", Dict({<<"name", Str("thr")>>, <<"value", Num("5")>>}))>>)>>,
      <<1, CK(E, E, E, "count", <<Passed("nope", Num("1"))>>)>>,
      <<1, CK(E, E, E, "mean", << >>)>>,
      <<1, CK(E, E, E, "mean", InjectThresh)>>,
      <<2, CK(E, E, E, "count", << >>)>>,
      <<2, CK(E, E, E, "count", InjectThresh)>>,
      <<2, CK(E, E, E, "count", <<Passed("freq", Str("YS"))>>)>>,
      <<2, CK(E, E, List({"Y"}), "count", << >>)>>,
      <<2, CK(E, E, List({"Y"}), "count", <<Passed("freq", Str("MS"))>>)>>,
      <<2, CK(Str("skip"), E, E, "count", << >>)>>,
      <<2, CK(Str("wmo"), Tol, E, "count", << >>)>>,
      <<2, CK(Str("wmo"), Dict({ }), E, "count", << >>)>>,
      <<7, CK(E, E, E, "count", << >>)>>,
      <<7, CK(Str("wmo"), Tol, E, "count", << >>)>>,
      <<8, CK(E, E, E, "count", << >>)>> }

\* the keyword arguments of a call; Empty stands for "not passed"
Kwds(tas, pr, ds, thresh, freq) ==
    LET full == [tas |-> tas, pr |-> pr, ds |-> ds, thresh |-> thresh, freq |-> freq]
    IN  [n \in {m \in DOMAIN full : full[m] # Empty} |-> full[n]]

CallKwds ==
    { Kwds(tas, pr, ds, thresh, freq) :
        tas \in {E, Str("tx"), DataArray("tas")},
        pr \in {E, Str("pr"), Str("px"), DataArray("pr")},
        ds \in {E, Dataset({"tas"}), Dataset({"tas", "pr"})},
        thresh \in {E, Num("3")},
        freq \in {E, Str("MS"), Str("2YS")} }

\* what the data and CF checks decide on the inputs: (datacheck passes, cfcheck passes)
Validity == {<<TRUE, TRUE>>, <<FALSE, TRUE>>, <<TRUE, FALSE>>}

OptionChoices ==
    {<<"any", Dict({ })>>, <<"skip", Dict({ })>>, <<"wmo", Dict({<<"nm", Num("8")>>})>>}

NextCall ==
    \/ \E cn \in CallNew : Len(classes) = NDeclared /\ Instantiate(cn[1], cn[2])
    \/ \E o \in OptionChoices : SetOptions(o[1], o[2])
    \/ \E inst \in 1..MaxInstances, kwds \in CallKwds, ok \in Validity :
          Call(inst, kwds, ok[1], ok[2])
    \/ DataCheck
    \/ CfCheck
    \/ PeriodCheck
    \/ Compute
    \/ Format
    \/ Postprocess
    \/ Attrs
    \/ Return

SpecCall == Init /\ [][NextCall]_vars

-----------------------------------------------------------------------------
(* Claims on the call *)

Has(step) == \E i \in DOMAIN log : log[i] = step
Pos(step) == CHOOSE i \in DOMAIN log : log[i] = step
Before(a, b) == Has(a) /\ Has(b) /\ Pos(a) < Pos(b)

\* C2: a call runs datacheck, then cfcheck, then (resampling indicators) the period
\* check, all before compute; when one of them raises compute is never invoked; the
\* masking and the assignment of the attributes happen only after compute has returned.
C2_ChecksBeforeCompute ==
    call.inst # 0 =>
        LET cls == ClassOf(call.inst) IN
        /\ \A i, j \in DOMAIN log : log[i] = log[j] => i = j
        /\ Has("cfcheck") => Before("datacheck", "cfcheck")
        /\ Has("periodcheck") => Before("cfcheck", "periodcheck")
        /\ Has("compute") =>
             /\ Before("cfcheck", "compute")
             /\ cls.resampling => Before("periodcheck", "compute")
             /\ call.dataOK /\ call.cfOK
        /\ call.exc # "" => ~Has("compute")
        /\ (Has("mask") \/ call.masked) => Before("compute", "mask")
        /\ (Has("attrs") \/ call.named) => Before("compute", "attrs")

\* a call of a resampling indicator that went through every step and masked its output
C2_Witness ==
    /\ pc = "done" /\ call.exc = "" /\ call.masked /\ call.named
    /\ log = <<"parse", "datacheck", "cfcheck", "periodcheck", "compute", "format", "mask", "attrs">>

\* whether an item of the `parameters` argument gives its parameter a value, and the
\* name the parameter has afterwards
GivesValue(item) ==
    IF item.val.t = "dict" /\ is_parameter_dict(item.val)
    THEN "value" \in DictKeys(item.val)
    ELSE TRUE

FinalName(item) ==
    IF item.val.t = "dict" /\ is_parameter_dict(item.val) /\ "name" \in DictKeys(item.val)
    THEN DictGet(item.val, "name").v
    ELSE item.key

GivenValue(item) ==
    IF item.val.t = "dict" /\ is_parameter_dict(item.val)
    THEN DictGet(item.val, "value")
    ELSE item.val

\* C3: `parameters` and `injected_parameters` partition the parameters of an
\* indicator: a parameter is injected exactly when the constructor gave it a value,
\* and the call signature lists exactly the keys of `parameters`.
C3_ParametersPartition ==
    (lastOp.op = "new" /\ lastOp.created # 0) =>
        LET cls == classes[lastOp.created]
            passed == lastOp.kw.parameters
            P == Keys(parameters(cls))
            inj == injected_parameters(cls)
            I == {inj[i][1] : i \in DOMAIN inj}
        IN
        /\ P \cap I = { }
        /\ P \cup I = Keys(cls.params)
        /\ Len(parameters(cls)) + Len(inj) = Len(cls.params)
        /\ Cardinality(Keys(cls.params)) = Len(cls.params)
        /\ Len(cls.params) = Len(ComputeSignature(lastOp.kw.compute)) + 1
        /\ I = {FinalName(passed[i]) : i \in {j \in DOMAIN passed : GivesValue(passed[j])}}
        /\ \A i \in DOMAIN inj, j \in DOMAIN passed :
             (GivesValue(passed[j]) /\ FinalName(passed[j]) = inj[i][1])
                 => inj[i][2] = GivenValue(passed[j])
        /\ lastOp.ret # 0 =>
             LET sig == instances[lastOp.ret].signature IN
             /\ {sig[i].name : i \in DOMAIN sig} = P
             /\ Len(sig) = Cardinality(P)

\* an indicator whose threshold was renamed and given a value: it is injected under
\* its new name and absent from the signature, which lists the five other parameters
C3_Witness ==
    /\ lastOp.op = "new" /\ lastOp.ret # 0
    /\ LET cls == classes[lastOp.created]
           sig == instances[lastOp.ret].signature
       IN  /\ injected_parameters(cls) = << <<"thr", Num("5")>> >>
           /\ {sig[i].name : i \in DOMAIN sig} = {"tas", "pr", "freq", "kwargs", "ds"}
           /\ Keys(parameters(cls)) = {"tas", "pr", "freq", "kwargs", "ds"}

\* the injected parameters of a class that map to an argument of the compute function
InjectedArgs(cls) ==
    {cls.params[i] : i \in {j \in DOMAIN cls.params :
                              injected(cls.params[j]) /\ cls.params[j].compute_name # ""}}

\* compute received the injected value: under the argument name of the parameter, or,
\* for the **kwargs parameter, as the items of the injected dict
PassedToCompute(p) ==
    IF p.kind = InputKind_KWARGS
    THEN \A k \in DictKeys(p.value) :
             k \in DOMAIN call.args /\ call.args[k] = DictGet(p.value, k)
    ELSE p.compute_name \in DOMAIN call.args /\ call.args[p.compute_name] = p.value

\* the constructor also injected a **kwargs dict holding the argument name of p
KwargsInjectedOver(cls, p) ==
    /\ p.kind # InputKind_KWARGS
    /\ \E q \in InjectedArgs(cls) :
           q.kind = InputKind_KWARGS /\ p.compute_name \in DictKeys(q.value)

VariableParams(cls) ==
    LET ps == parameters(cls) IN
    {ps[i] : i \in {j \in DOMAIN ps : ps[j].kind \in {InputKind_VARIABLE,
                                                      InputKind_OPTIONAL_VARIABLE}}}

\* the argument of the running call for a parameter: the one passed, else the default
CallArg(p) == IF p.name \in DOMAIN call.kwds THEN call.kwds[p.name] ELSE p.default

CallDs == IF "ds" \in DOMAIN call.kwds THEN call.kwds["ds"] ELSE NoneV

\* the name under which a variable given as a string, or left out, is looked up
LookupName(p) == IF CallArg(p).t = "str" THEN CallArg(p).v ELSE p.name

ByName(p) == CallArg(p).t = "str" \/ CallArg(p) = NoneV

EffectiveMethod(cls) ==
    IF cls.missing = Str("from_context") THEN OPTIONS.check_missing ELSE cls.missing.v

\* C7 as stated: the outputs of a missing-checking indicator are masked exactly when
\* the effective method is not 'skip' and _get_missing_freq did not return False; the
\* masking options are the indicator's missing_options when set (not None), else the
\* entry of the global options for the method.
C7_MaskingPolicy ==
    (call.inst # 0 /\ ClassOf(call.inst).checkMissing /\ (Has("mask") \/ Has("postprocess"))) =>
        LET cls == ClassOf(call.inst)
            method == EffectiveMethod(cls)
        IN
        /\ call.masked <=> (method # "skip" /\ get_missing_freq(cls, call.params) # FalseV)
        /\ call.masked =>
             call.options = IF cls.missing_options # NoneV
                            THEN cls.missing_options
                            ELSE OPTIONS.missing_options[method]

\* the frequency of the running call: the injected one, else the one passed, else
\* the default of the compute function
CallFreq(cls) ==
    LET p == cls.params[IndexOf(cls.params, "freq")] IN
    IF injected(p) THEN p.value
    ELSE IF "freq" \in DOMAIN call.kwds THEN call.kwds["freq"]
    ELSE p.default

\* C9: a call of a resampling indicator with allowed_periods set and a frequency whose
\* base period is not allowed never reaches compute: the period check raises
\* ValueError once the arguments are parsed and datacheck and cfcheck have passed.
\* With allowed_periods None, or an allowed base period, the period check never raises.
C9_AllowedPeriods ==
    (call.inst # 0 /\ ClassOf(call.inst).resampling /\ call.at # "parse") =>
        LET cls == ClassOf(call.inst)
            allowed == cls.allowed_periods
            base == parse_offset(CallFreq(cls).v)[2]
        IN
        IF allowed # NoneV /\ base \notin DictKeys(allowed)
        THEN /\ ~Has("compute")
             /\ pc = "done" => call.exc # ""
             /\ (Has("periodcheck") \/ (pc = "done" /\ call.dataOK /\ call.cfOK))
                    => (call.exc = "ValueError" /\ call.at = "periodcheck")
        ELSE call.at # "periodcheck"

\* a monthly frequency passed to an indicator that allows yearly periods only: the
\* period check raised ValueError after both checks passed, compute was not invoked
C9_Witness ==
    /\ pc = "done" /\ call.exc = "ValueError" /\ call.at = "periodcheck"
    /\ log = <<"parse", "datacheck", "cfcheck", "periodcheck">>
    /\ ClassOf(call.inst).allowed_periods = List({"Y"})
    /\ "freq" \in DOMAIN call.kwds /\ call.kwds["freq"] = Str("MS")

-----------------------------------------------------------------------------
(* Indicator.from_dict *)

\* base_registry, for the base classes of the model
base_registry == ("Indicator" :> 1) @@ ("Daily" :> 2) @@ ("ReducingIndicator" :> 7)

\* the functions found in xclim.indices.generic and xclim.indices
IndiceNames == {"count", "mean"}

\* a resolution that looks into base_registry before the registry
resolve_base_BaseRegistryFirst(cls, base, reg) ==
    IF base.t = "absent" THEN cls
    ELSE IF base.t = "class" THEN base.cls
    ELSE
      LET parts == base.parts
          registry_id == SubSeq(parts, 1, Len(parts) - 1) \o <<Upper(parts[Len(parts)])>>
      IN  IF Len(parts) = 1 /\ parts[1] \in DOMAIN base_registry THEN base_registry[parts[1]]
          ELSE IF registry_id \in DOMAIN reg THEN reg[registry_id]
          ELSE 0

\* Indicator.from_dict, lines 777-788: the class the indicator is created from,
\* 0 when the name is in neither registry
resolve_base(cls, base, reg) ==
    IF base.t = "absent" THEN cls
    ELSE IF base.t = "class" THEN base.cls
    ELSE
      LET parts == base.parts
          registry_id == SubSeq(parts, 1, Len(parts) - 1) \o <<Upper(parts[Len(parts)])>>
      IN  IF registry_id \in DOMAIN reg THEN reg[registry_id]
          ELSE IF Len(parts) = 1 /\ parts[1] \in DOMAIN base_registry
          THEN base_registry[parts[1]]
          ELSE 0

\* cls.from_dict(data, identifier, module): what it does to the registries, and the
\* record of the call
from_dict(c, base, kw) ==
    LET cls == resolve_base(c, base, registry)
        rec == [on |-> c, base |-> base, kw |-> kw, registry |-> registry,
                cls |-> cls, exc |-> ""]
        Fail(exc) ==
            /\ from_dict_call' = [rec EXCEPT !.exc = exc]
            /\ lastOp' = Op("from_dict", c, 0, exc, "from_dict", FALSE, 0, kw)
            /\ UNCHANGED <<classes, registry, indicators_registry, alive, instances>>
    IN
    /\ c \in 1..Len(classes)
    /\ classes[c].isIndicator
    /\ Len(classes) < NDeclared + MaxCreated
    /\ IF cls = 0 THEN Fail("ValueError")
       ELSE IF kw.compute # "" /\ kw.compute \notin IndiceNames THEN Fail("ImportError")
       ELSE /\ Construct(cls, kw)
            /\ from_dict_call' = [rec EXCEPT !.exc = lastOp'.exc]

\* cls.from_dict(data, identifier, module) called by the user
FromDict(c, base, kw) ==
    /\ from_dict(c, base, kw)
    /\ UNCHANGED <<modules, build>>
    /\ UNCHANGED callVars

\* the arguments of from_dict: identifier, module, base, compute
FD(identifier, module, base, compute) ==
    <<base, Kw(Str(identifier), module, Str("atmos"), Empty, Empty, Empty, compute, << >>)>>

FromDictArgs ==
    { FD("tg", Str("atmos"), NoBase, "count"),
      FD("daily", Str("atmos"), BaseName(<<"Daily">>), "count"),
      FD("tg", NoneV, BaseName(<<"Daily">>), "count"),
      FD("pr", Str("atmos"), BaseName(<<"tg">>), "count"),
      FD("pr", Str("atmos"), BaseName(<<"daily">>), "count"),
      FD("tg", Str("atmos"), BaseName(<<"nope">>), "count"),
      FD("pr", Str("atmos"), BaseName(<<"ReducingIndicator">>), "count"),
      FD("tg", Str("atmos"), BaseName(<<"Daily">>), "nofunc"),
      FD("pr", Str("atmos"), BaseClass(2), "count"),
      FD("tg", Str("custom"), NoBase, "count"),
      FD("pr", Str("atmos"), BaseName(<<"custom", "tg">>), "count") }

\* the classes from_dict is called on: Indicator and MyInd
FromDictOn == {1, 4}

NextFromDict == \E c \in FromDictOn, a \in FromDictArgs : FromDict(c, a[1], a[2])

SpecFromDict == Init /\ [][NextFromDict]_vars

\* the class the documentation resolves a base name to, in the registries as they
\* were before the call: the registry first, then base_registry; 0 when in neither
DocumentedBase(parts, reg) ==
    LET id == SubSeq(parts, 1, Len(parts) - 1) \o <<Upper(parts[Len(parts)])>>
        name == parts[1]
    IN  IF id \in DOMAIN reg THEN reg[id]
        ELSE IF Len(parts) = 1 /\ name \in DOMAIN base_registry THEN base_registry[name]
        ELSE 0

\* the outcome of the last from_dict is the one of constructing on class c
AsIfCalledOn(c) ==
    LET kw == from_dict_call.kw
        r == IndicatorNew(c, classes[c], kw)
    IN  IF kw.compute # "" /\ kw.compute \notin IndiceNames
        THEN lastOp.exc = "ImportError" /\ lastOp.created = 0
        ELSE IF r.exc # ""
        THEN lastOp.op = "new" /\ lastOp.cls = c /\ lastOp.exc = r.exc /\ lastOp.created = 0
        ELSE /\ lastOp.op = "new" /\ lastOp.cls = c /\ lastOp.created = Len(classes)
             /\ classes[lastOp.created].parent = c
             /\ classes[lastOp.created] =
                    [r.cls EXCEPT !.registry_id = RegistryName(r.cls)]
             /\ registry[RegistryName(r.cls)] = lastOp.created

\* C11: from_dict with a string base resolves it in the registry (last dotted part
\* uppercased), then in base_registry (exact name); it raises ValueError and creates
\* nothing when the name is in neither, and otherwise creates the indicator as if it
\* had been called on the resolved class, whatever class it was called on.
C11_FromDictBase ==
    (from_dict_call.on # 0 /\ from_dict_call.base.t = "str") =>
        LET expected == DocumentedBase(from_dict_call.base.parts, from_dict_call.registry) IN
        IF expected = 0
        THEN /\ from_dict_call.exc = "ValueError" /\ lastOp.exc = "ValueError"
             /\ lastOp.created = 0
             /\ registry = from_dict_call.registry
        ELSE /\ from_dict_call.cls = expected
             /\ from_dict_call.exc = lastOp.exc
             /\ AsIfCalledOn(expected)

\* from_dict called on MyInd with base "Daily" while the registry holds a DAILY created
\* earlier: the new indicator derives from the registered class, not from the base
\* class Daily nor from MyInd
C11_Witness ==
    /\ from_dict_call.on = 4
    /\ from_dict_call.base = BaseName(<<"Daily">>)
    /\ <<"DAILY">> \in DOMAIN from_dict_call.registry
    /\ lastOp.op = "new" /\ lastOp.created # 0 /\ lastOp.exc = ""
    /\ classes[lastOp.created].parent = from_dict_call.registry[<<"DAILY">>]
    /\ classes[lastOp.created].parent \notin {2, 4}

-----------------------------------------------------------------------------
(* build_indicator_module_from_yaml *)

\* one entry of the `indicators` section of a YAML file
Item(identifier, base, compute, realm, missing_options) ==
    [identifier |-> identifier, base |-> base, compute |-> compute, realm |-> realm,
     missing_options |-> missing_options]

\* a base declared above in the same file: ".name"
BaseRelative(name) == Base("relative", <<name>>, 0)

\* xclim.core.utils.raise_warn_or_log: whether the error is raised again
raise_warn_or_log(mode) == mode \notin {"ignore", "log", "warn"}

\* build_indicator_module_from_yaml, line 1860: the base of the entries without one
default_base(base) ==
    IF <<base>> \in DOMAIN registry THEN registry[<<base>>]
    ELSE IF base \in DOMAIN base_registry THEN base_registry[base]
    ELSE 2

\* build_indicator_module_from_yaml up to the loop on the indicators
StartBuild(file, name, mode, reload) ==
    /\ build.status # "running"
    /\ build' = [NoBuild EXCEPT !.status = "running", !.mode = mode, !.name = name,
                                !.reload = reload, !.file = file, !.todo = file,
                                !.before = modules, !.ninstances = Len(instances)]
    /\ UNCHANGED <<from_dict_call, modules>>
    /\ UNCHANGED <<regVars, callVars>>

\* an assignment that also stores the outcome of a failed construction
assign_mapping_Always(mapping, identifier, exc, inst) == (identifier :> inst) @@ mapping

\* line 1949 inside the try statement: the assignment happens when from_dict returned
assign_mapping(mapping, identifier, exc, inst) ==
    IF exc = "" THEN (identifier :> inst) @@ mapping ELSE mapping

\* the build after an iteration of the loop that ended with exception exc ("" for none)
after_item(identifier, exc, inst) ==
    IF exc # "" /\ raise_warn_or_log(build.mode)
    THEN [build EXCEPT !.status = "raised", !.exc = exc, !.failed = @ \cup {identifier}]
    ELSE [build EXCEPT !.todo = Tail(@),
                       !.mapping = assign_mapping(@, identifier, exc, inst),
                       !.failed = IF exc # "" THEN @ \cup {identifier} ELSE @]

\* one iteration of the loop on the indicators of the file (lines 1919-1952)
BuildItem ==
    /\ build.status = "running"
    /\ build.todo # << >>
    /\ LET data == Head(build.todo)
           key == <<build.name, Upper(data.base.parts[1])>>
           kw == Kw(Str(data.identifier), Str(build.name),
                    IF data.realm = Empty THEN Str("atmos") ELSE data.realm,
                    Empty, data.missing_options, Empty, data.compute, << >>)
       IN
       IF data.base.t = "relative" /\ key \notin DOMAIN registry
       THEN /\ build' = after_item(data.identifier, "KeyError", 0)
            /\ UNCHANGED <<regVars, from_dict_call>>
       ELSE /\ from_dict(1,
                         IF data.base.t = "relative" THEN BaseClass(registry[key])
                         ELSE IF data.base.t = "absent" THEN BaseClass(default_base(""))
                         ELSE data.base,
                         kw)
            /\ build' = after_item(data.identifier, from_dict_call'.exc, lastOp'.ret)
    /\ UNCHANGED modules
    /\ UNCHANGED callVars

\* build_indicator_module, lines 1743-1762: the entries removed by a reload, and the
\* module after the update
removed_names(out, objs, reload) ==
    IF reload THEN {n \in DOMAIN out : n \notin DOMAIN objs} ELSE { }

updated_module(out, objs, reload) ==
    LET kept == (DOMAIN out) \ removed_names(out, objs, reload)
    IN  objs @@ [n \in kept |-> out[n]]

\* the end of the loop: build_indicator_module(module_name, mapping, reload=reload),
\* and the module is returned
FinishBuild ==
    /\ build.status = "running"
    /\ build.todo = << >>
    /\ LET name == build.name
           out == IF name \in DOMAIN modules THEN modules[name] ELSE << >>
           removed == removed_names(out, build.mapping, build.reload)
           gone == {instances[out[n]].cls : n \in removed}
           ids == {classes[c].registry_id : c \in gone}
       IN
       IF \E id \in ids : id \notin DOMAIN registry
       THEN /\ build' = [build EXCEPT !.status = "raised", !.exc = "KeyError"]
            /\ UNCHANGED <<registry, indicators_registry, modules>>
       ELSE /\ registry' = [id \in (DOMAIN registry) \ ids |-> registry[id]]
            /\ indicators_registry' =
                   [c \in DOMAIN indicators_registry |->
                      IF c \in gone THEN << >> ELSE indicators_registry[c]]
            /\ modules' = (name :> updated_module(out, build.mapping, build.reload)) @@ modules
            /\ build' = [build EXCEPT !.status = "returned"]
    /\ UNCHANGED <<classes, alive, instances, lastOp, from_dict_call>>
    /\ UNCHANGED callVars

\* the entries of the YAML files of the model
Good(identifier) == Item(identifier, NoBase, "count", Empty, Empty)
BadBase(identifier) == Item(identifier, BaseName(<<"nope">>), "count", Empty, Empty)
BadFunc(identifier) == Item(identifier, NoBase, "nofunc", Empty, Empty)
BadRealm(identifier) == Item(identifier, NoBase, "count", Str("bogus"), Empty)
BadInit(identifier) == Item(identifier, NoBase, "count", Empty, Tol)
Rel(identifier, base) == Item(identifier, BaseRelative(base), "count", Empty, Empty)

\* the `indicators` sections of the YAML files of the model
Files ==
    { <<Good("tg")>>,
      <<Good("pr")>>,
      <<BadBase("tg"), Good("pr")>>,
      <<Good("tg"), BadFunc("pr")>>,
      <<Good("tg"), Rel("pr", "tg")>>,
      <<BadRealm("tg"), Rel("pr", "tg")>>,
      <<BadInit("tg"), Good("pr")>>,
      <<BadFunc("tg"), BadBase("pr")>> }

Modes == {"raise", "warn", "ignore"}

NextYaml ==
    \/ \E file \in Files, mode \in Modes, reload \in BOOLEAN :
          StartBuild(file, "custom", mode, reload)
    \/ BuildItem
    \/ FinishBuild

SpecYaml == Init /\ [][NextYaml]_vars

\* the module of the build holds, under name n, an indicator constructed by this
\* build with identifier n
Built(n) ==
    /\ build.name \in DOMAIN modules
    /\ n \in DOMAIN modules[build.name]
    /\ LET i == modules[build.name][n] IN
       /\ i > build.ninstances /\ i \in DOMAIN instances
       /\ instances[i].cls > NDeclared
       /\ classes[instances[i].cls].identifier = Str(n)

\* the build put nothing under name n: the module has no such entry, or still the
\* one it had before the build
LeftOut(n) ==
    \/ build.name \notin DOMAIN modules
    \/ n \notin DOMAIN modules[build.name]
    \/ /\ build.name \in DOMAIN build.before
       /\ n \in DOMAIN build.before[build.name]
       /\ modules[build.name][n] = build.before[build.name][n]

\* the entries of the file whose construction fails whatever was built before
Broken(data) ==
    \/ data.base = BaseName(<<"nope">>)
    \/ data.compute = "nofunc"
    \/ data.realm = Str("bogus")
    \/ data.missing_options # Empty

\* C12: with mode 'warn' or 'ignore' a build returns its module, from which the
\* definitions whose construction failed are left out and in which every other
\* definition of the file is constructed; with mode 'raise' the first failure
\* propagates and no module is built or extended.
C12_BuildModes ==
    LET ids == {build.file[i].identifier : i \in DOMAIN build.file} IN
    /\ build.mode \in {"warn", "ignore"} => build.status # "raised"
    /\ build.status = "returned" =>
         /\ build.name \in DOMAIN modules
         /\ build.mode = "raise" => build.failed = { }
         /\ \A n \in ids : IF n \in build.failed THEN LeftOut(n) ELSE Built(n)
         /\ \A i \in DOMAIN build.file :
               /\ Broken(build.file[i]) => build.file[i].identifier \in build.failed
               /\ build.file[i] = Good(build.file[i].identifier)
                     => build.file[i].identifier \notin build.failed
    /\ build.status = "raised" =>
         /\ build.mode = "raise"
         /\ modules = build.before
         /\ build.todo # << >>
         /\ LET k == Len(build.file) - Len(build.todo) + 1 IN
            /\ build.failed = {build.file[k].identifier}
            /\ \A j \in 1..(k - 1) :
                  /\ ~Broken(build.file[j])
                  /\ build.file[j].identifier \in DOMAIN build.mapping

\* a build in mode 'warn' whose first definition failed: the module is returned with
\* the second definition constructed, and without the first
C12_Witness ==
    /\ build.status = "returned" /\ build.mode = "warn"
    /\ build.file = <<BadBase("tg"), Good("pr")>>
    /\ build.failed = {"tg"}
    /\ Built("pr")
    /\ "tg" \notin DOMAIN modules[build.name]

====
